---- MODULE Spec2Model ----
(***************************************************************************)
(* State-machine model of the hovden-musikklubb client components:         *)
(*   EventImage and MusikkfestPage        (src/unnamed/part_000)           *)
(*   EventManager, ContactMessages and MembershipForm                      *)
(*                          (src/src/components/admin/EventManager.tsx)    *)
(* together with the two backend tables they read and write.               *)
(*                                                                         *)
(* Every backend call is asynchronous: a handler issues a request (it is   *)
(* put in `inflight`), the backend applies it at some later point (Apply), *)
(* and the handler's continuation runs when the response arrives           *)
(* (Resolve).  Requests are never cancelled and carry no ordering.         *)
(***************************************************************************)
EXTENDS Integers, Sequences, FiniteSets, Bags, TLC

\* ------------------------------------------------------------------ bounds

\* Largest natural width / height of a loaded image.
MaxDim == 20
\* Largest number of event rows ever allocated in the events table.
MaxEvents == 2
\* Largest number of contact messages in the contact_messages table.
MaxMessages == 2
\* Largest number of handler calls the admin makes (clicks, selections,
\* typing) in EventManager and in ContactMessages.
MaxOps == 3
\* Largest number of requests simultaneously in flight.
MaxInflight == 2

\* ----------------------------------------------------------------- domains

\* null, as a record that is no row (ids of rows start at 1).
Null == [id |-> 0]

\* admin_notes is string | null; null is kept apart from every text.
NullNotes == "null"

EventStatuses == {"draft", "published", "cancelled"}
MessageStatuses == {"new", "in_progress", "completed"}

\* Titles an admin may type; '' is the cleared input.
Titles == {"Grendedag", "Konsert"}
\* The two options of the festival selector.
Festivals == {"", "musikkfest"}
\* Notes an admin may type; '' is the cleared textarea.
NoteTexts == {"", "ring tilbake"}

\* Two instants an event can be dated (0 stands for the empty input '').
Dates == {1, 2}
EventIds == 1..MaxEvents
MessageIds == 1..MaxMessages

\* The characters an e-mail address is typed from, and the addresses typed.
EmailChars == {"k", "@"}
Emails == {<<>>, <<"k">>, <<"@", "k">>, <<"k", "@">>, <<"k", "@", "k">>}
Names == {"", "Kari"}
Phones == {"", "12345678"}
Locations == {"", "Hovden"}
Motivations == {"", "musikk"}

VARIABLES
    mounted,        \* which component is mounted in the browser
    aspect,         \* EventImage: the aspect class state
    natural,        \* EventImage: naturalWidth, naturalHeight of the last load
    dbEvents,       \* backend: rows of table events
    nextEventId,    \* backend: the id the next inserted event row gets
    dbMessages,     \* backend: rows of table contact_messages
    inflight,       \* bag of requests issued and not yet resolved
    pageEvents,     \* MusikkfestPage: events
    pageLoading,    \* MusikkfestPage: loading
    selectedEvent,  \* MusikkfestPage: selectedEvent
    events,         \* EventManager: events
    loading,        \* EventManager: loading
    editingEvent,   \* EventManager: editingEvent
    formData,       \* EventManager: formData
    messages,       \* ContactMessages: messages
    msgLoading,     \* ContactMessages: loading
    editingNotes,   \* ContactMessages: editingNotes
    memberData,     \* MembershipForm: formData
    submitted,      \* MembershipForm: submitted
    submitting,     \* MembershipForm: submitting
    href,           \* MembershipForm: window.location.href
    ops,            \* EventManager, ContactMessages: handler calls by the admin so far
    last            \* the handler step taken last, its input and its toast

imageVars == <<aspect, natural>>
dbVars == <<dbEvents, nextEventId, dbMessages>>
pageVars == <<pageEvents, pageLoading, selectedEvent>>
eventVars == <<events, loading, editingEvent, formData>>
messageVars == <<messages, msgLoading, editingNotes>>
memberVars == <<memberData, submitted, submitting, href>>
vars == <<mounted, imageVars, dbVars, inflight, pageVars, eventVars,
          messageVars, memberVars, ops, last>>

\* The record of the last step: the handler (or continuation) that ran, the
\* row it was about, whether its input was positive (confirmation accepted,
\* validation passed, response without error) and the toast it raised.
Step(op, id, ok, toast) ==
    [op |-> op, at |-> "call", id |-> id, ok |-> ok, toast |-> toast]

\* The same for the continuation of `op` after its await, where ok says that
\* the response carried no error.
Resumed(op, id, ok, toast) ==
    [op |-> op, at |-> "await", id |-> id, ok |-> ok, toast |-> toast]

NoToast == "none"

\* ------------------------------------------------------------- EventImage

\* img.naturalWidth / img.naturalHeight in IEEE arithmetic: x/0 is Infinity
\* for x > 0, 0/0 is NaN; otherwise the quotient, kept as a fraction (for
\* dimensions of this size the rounded quotient compares with the rounded
\* literals 1.7 and 0.8 as the exact fractions do).
Ratio(w, h) ==
    IF h = 0
    THEN IF w = 0 THEN [kind |-> "NaN", num |-> 0, den |-> 1]
                  ELSE [kind |-> "Infinity", num |-> 1, den |-> 0]
    ELSE [kind |-> "finite", num |-> w, den |-> h]

\* ratio > n/d  (false for NaN)
Greater(r, n, d) ==
    CASE r.kind = "NaN" -> FALSE
      [] r.kind = "Infinity" -> TRUE
      [] OTHER -> r.num * d > n * r.den

\* ratio < n/d  (false for NaN and for Infinity)
Less(r, n, d) ==
    CASE r.kind = "NaN" -> FALSE
      [] r.kind = "Infinity" -> FALSE
      [] OTHER -> r.num * d < n * r.den

ClassifyAspectInclusive(w, h) ==
    LET ratio == Ratio(w, h) IN
    IF Greater(ratio, 17, 10) \/ (ratio.kind = "finite" /\ ratio.num * 10 = 17 * ratio.den)
    THEN "aspect-[16/9]"
    ELSE IF Less(ratio, 8, 10) THEN "aspect-[3/4]"
    ELSE "aspect-[4/3]"

\* The branch of handleImageLoad.
ClassifyAspect(w, h) ==
    LET ratio == Ratio(w, h) IN
    IF Greater(ratio, 17, 10) THEN "aspect-[16/9]"
    ELSE IF Less(ratio, 8, 10) THEN "aspect-[3/4]"
    ELSE "aspect-[4/3]"

HandleImageLoad(w, h) ==
    /\ UNCHANGED ops
    /\ mounted = "EventImage"
    /\ aspect' = ClassifyAspect(w, h)
    /\ natural' = <<w, h>>
    /\ last' = Step("handleImageLoad", 0, TRUE, NoToast)
    /\ UNCHANGED <<mounted, dbVars, inflight, pageVars, eventVars,
                   messageVars, memberVars>>

\* ---------------------------------------------------------------- backend

\* A row of table events (description, location, image_url, ticket_price and
\* tickets_url are carried along unread by every handler and are left out).
EventRow(id, title, date, status, festival) ==
    [id |-> id, title |-> title, event_date |-> date, status |-> status,
     festival |-> festival]

\* A row of table contact_messages (name, email and message never change).
MessageRow(id, notes, status) ==
    [id |-> id, created_at |-> id, admin_notes |-> notes, status |-> status]

EmptyPatch == [f \in {} |-> ""]

\* A request as issued by `caller`: a select, insert, update or delete on
\* one table, the row id of its .eq('id', ...) filter (0 when it has none),
\* the columns it writes, and what the caller's closure has captured for its
\* continuation.  nth tells the requests of the inline status changes apart
\* by the handler call that issued them (0 for every other request).
Request(caller, kind, id, patch, snap) ==
    [caller |-> caller, kind |-> kind, id |-> id, patch |-> patch,
     snap |-> snap, phase |-> "sent", error |-> FALSE, data |-> <<>>,
     nth |-> 0]

\* The request r as the one issued by the n-th handler call.
Nth(r, n) == [r EXCEPT !.nth = n]

\* Issuing r cancels the earlier requests of the same handler on the same row.
SendLatestOnly(r) ==
    LET kept == {q \in BagToSet(inflight) : ~(q.caller = r.caller /\ q.id = r.id /\ q.id # 0)}
    IN  [q \in kept |-> inflight[q]] (+) SetToBag({r})

\* Issuing r adds it to the requests in flight.
Send(r) == inflight (+) SetToBag({r})
Drop(r) == inflight (-) SetToBag({r})
InFlight == BagToSet(inflight)
Pending(caller) == {r \in InFlight : r.caller = caller /\ r.phase = "done"}
CanIssue == BagCardinality(inflight) < MaxInflight

\* update(patch): the row with the patched columns overwritten.
PatchRow(row, patch) ==
    [f \in DOMAIN row |-> IF f \in DOMAIN patch THEN patch[f] ELSE row[f]]

\* .update(patch).eq('id', id) on a table.
UpdateRows(rows, id, patch) ==
    {IF row.id = id THEN PatchRow(row, patch) ELSE row : row \in rows}

\* .delete().eq('id', id) on a table.
DeleteRows(rows, id) == {row \in rows : row.id # id}

\* All orders of `rows` that .order(column) may return; Before(a, b) is the
\* strict order on the column, rows with equal keys come in any order.
Ordered(rows, Before(_, _)) ==
    LET n == Cardinality(rows) IN
    {s \in [1..n -> rows] :
        /\ \A i, j \in 1..n : i # j => s[i] # s[j]
        /\ \A i, j \in 1..n : i < j => ~Before(s[j], s[i])}

DateDescending(a, b) == a.event_date > b.event_date

\* .order('event_date', { ascending: true }) and
\* .order('created_at', { ascending: false })
DateAscending(a, b) == a.event_date < b.event_date
CreatedDescending(a, b) == a.created_at > b.created_at

\* What a select of `caller` may return.
SelectResults(caller) ==
    CASE caller = "fetchMusikkfestEvents" ->
            Ordered({row \in dbEvents : row.festival = "musikkfest"}, DateAscending)
      [] caller = "fetchEvents" -> Ordered(dbEvents, DateAscending)
      [] caller = "fetchMessages" -> Ordered(dbMessages, CreatedDescending)

OnEvents(r) == r.caller \in {"fetchMusikkfestEvents", "fetchEvents",
                            "handleSubmit", "handleDelete", "handleStatusChange"}
OnMessages(r) == r.caller \in {"fetchMessages", "updateStatus",
                              "updateAdminNotes", "deleteMessage"}

Responded(r, error, data) ==
    inflight' = Drop(r) (+) SetToBag({[r EXCEPT !.phase = "done",
                                               !.error = error,
                                               !.data = data]})

\* The backend refuses the request: no table changes, the response carries
\* an error.
ApplyError(r) ==
    /\ UNCHANGED ops
    /\ r.phase = "sent" /\ r.kind # "store"
    /\ Responded(r, TRUE, <<>>)
    /\ last' = Step("backend", r.id, FALSE, NoToast)
    /\ UNCHANGED <<mounted, imageVars, dbVars, pageVars, eventVars,
                   messageVars, memberVars>>

ApplySelect(r) ==
    /\ UNCHANGED ops
    /\ r.phase = "sent" /\ r.kind = "select"
    /\ \E data \in SelectResults(r.caller) : Responded(r, FALSE, data)
    /\ last' = Step("backend", r.id, TRUE, NoToast)
    /\ UNCHANGED <<mounted, imageVars, dbVars, pageVars, eventVars,
                   messageVars, memberVars>>

ApplyInsert(r) ==
    /\ UNCHANGED ops
    /\ r.phase = "sent" /\ r.kind = "insert" /\ OnEvents(r)
    /\ nextEventId <= MaxEvents
    /\ dbEvents' = dbEvents \cup {PatchRow(EventRow(nextEventId, "", 0, "draft", ""), r.patch)}
    /\ nextEventId' = nextEventId + 1
    /\ Responded(r, FALSE, <<>>)
    /\ last' = Step("backend", nextEventId, TRUE, NoToast)
    /\ UNCHANGED <<mounted, imageVars, dbMessages, pageVars, eventVars,
                   messageVars, memberVars>>

ApplyUpdate(r) ==
    /\ UNCHANGED ops
    /\ r.phase = "sent" /\ r.kind = "update"
    /\ IF OnEvents(r)
       THEN dbEvents' = UpdateRows(dbEvents, r.id, r.patch) /\ UNCHANGED dbMessages
       ELSE dbMessages' = UpdateRows(dbMessages, r.id, r.patch) /\ UNCHANGED dbEvents
    /\ Responded(r, FALSE, <<>>)
    /\ last' = Step("backend", r.id, TRUE, NoToast)
    /\ UNCHANGED <<mounted, imageVars, nextEventId, pageVars, eventVars,
                   messageVars, memberVars>>

ApplyDelete(r) ==
    /\ UNCHANGED ops
    /\ r.phase = "sent" /\ r.kind = "delete"
    /\ IF OnEvents(r)
       THEN dbEvents' = DeleteRows(dbEvents, r.id) /\ UNCHANGED dbMessages
       ELSE dbMessages' = DeleteRows(dbMessages, r.id) /\ UNCHANGED dbEvents
    /\ Responded(r, FALSE, <<>>)
    /\ last' = Step("backend", r.id, TRUE, NoToast)
    /\ UNCHANGED <<mounted, imageVars, nextEventId, pageVars, eventVars,
                   messageVars, memberVars>>

\* The backend processes one request that is in flight.
Backend ==
    \E r \in InFlight :
        \/ ApplyError(r)
        \/ ApplySelect(r)
        \/ ApplyInsert(r)
        \/ ApplyUpdate(r)
        \/ ApplyDelete(r)

\* --------------------------------------------------------- MusikkfestPage

KeepAll(event) == TRUE

\* events.filter(event => event.title !== 'Grendedag')
CardFilter(event) == event.title # "Grendedag"

\* The cards the page renders: none while loading or when events is empty.
Cards ==
    IF pageLoading \/ Len(pageEvents) = 0 THEN <<>>
    ELSE SelectSeq(pageEvents, CardFilter)

\* The continuation of fetchMusikkfestEvents after its await.
FetchMusikkfestEventsDone(r) ==
    /\ UNCHANGED ops
    /\ mounted = "MusikkfestPage"
    /\ r \in Pending("fetchMusikkfestEvents")
    /\ pageEvents' = IF ~r.error THEN r.data ELSE pageEvents
    /\ pageLoading' = FALSE
    /\ inflight' = Drop(r)
    /\ last' = Resumed("fetchMusikkfestEvents", 0, ~r.error, NoToast)
    /\ UNCHANGED <<mounted, imageVars, dbVars, selectedEvent, eventVars,
                   messageVars, memberVars>>

\* onClick of a card: setSelectedEvent(event)
SelectCard(i) ==
    /\ UNCHANGED ops
    /\ mounted = "MusikkfestPage"
    /\ i \in 1..Len(Cards)
    /\ selectedEvent' = Cards[i]
    /\ last' = Step("setSelectedEvent", Cards[i].id, TRUE, NoToast)
    /\ UNCHANGED <<mounted, imageVars, dbVars, inflight, pageEvents,
                   pageLoading, eventVars, messageVars, memberVars>>

\* onClose of the modal: setSelectedEvent(null)
CloseModal ==
    /\ UNCHANGED ops
    /\ mounted = "MusikkfestPage"
    /\ selectedEvent # Null
    /\ selectedEvent' = Null
    /\ last' = Step("onClose", 0, TRUE, NoToast)
    /\ UNCHANGED <<mounted, imageVars, dbVars, inflight, pageEvents,
                   pageLoading, eventVars, messageVars, memberVars>>

\* ----------------------------------------------------------- EventManager

\* if (error) throw error: the continuation leaves its try block for the
\* catch block when the response carries an error.
ThrowsNever(r) == FALSE
Throws(r) == r.error

\* The initial and the reset value of formData ('' as event_date is 0).
DefaultFormData ==
    [title |-> "", event_date |-> 0, status |-> "draft", festival |-> ""]

\* The form and the list are rendered once loading is false.
EventManagerShown == mounted = "EventManager" /\ ~loading

\* fetchEvents() up to its await: the select is issued.
FetchEventsRequest == Request("fetchEvents", "select", 0, EmptyPatch, <<>>)

\* The continuation of fetchEvents after its await.
FetchEventsDone(r) ==
    /\ UNCHANGED ops
    /\ mounted = "EventManager"
    /\ r \in Pending("fetchEvents")
    /\ events' = IF Throws(r) THEN events ELSE r.data
    /\ loading' = FALSE
    /\ inflight' = Drop(r)
    /\ last' = Resumed("fetchEvents", 0, ~r.error,
                    IF Throws(r) THEN "Kunne ikke hente arrangementer" ELSE NoToast)
    /\ UNCHANGED <<mounted, imageVars, dbVars, pageVars, editingEvent,
                   formData, messageVars, memberVars>>

\* onChange of the title, date and festival inputs.
ChangeTitle(title) ==
    /\ ops < MaxOps /\ ops' = ops + 1
    /\ EventManagerShown
    /\ title # formData.title
    /\ formData' = [formData EXCEPT !.title = title]
    /\ last' = Step("onChange", 0, TRUE, NoToast)
    /\ UNCHANGED <<mounted, imageVars, dbVars, inflight, pageVars, events,
                   loading, editingEvent, messageVars, memberVars>>

\* `date` is the instant new Date(localDateTime).toISOString() names, 0 when
\* the input is cleared.
ChangeDate(date) ==
    /\ ops < MaxOps /\ ops' = ops + 1
    /\ EventManagerShown
    /\ date # formData.event_date
    /\ formData' = [formData EXCEPT !.event_date = date]
    /\ last' = Step("onChange", 0, TRUE, NoToast)
    /\ UNCHANGED <<mounted, imageVars, dbVars, inflight, pageVars, events,
                   loading, editingEvent, messageVars, memberVars>>

ChangeFestival(festival) ==
    /\ ops < MaxOps /\ ops' = ops + 1
    /\ EventManagerShown
    /\ festival # formData.festival
    /\ formData' = [formData EXCEPT !.festival = festival]
    /\ last' = Step("onChange", 0, TRUE, NoToast)
    /\ UNCHANGED <<mounted, imageVars, dbVars, inflight, pageVars, events,
                   loading, editingEvent, messageVars, memberVars>>

SubmitRequestAlwaysInsert ==
    Request("handleSubmit", "insert", 0, formData, <<>>)

\* The request handleSubmit issues: an update of the edited row when an
\* event is being edited, an insert otherwise.
SubmitRequest ==
    IF editingEvent # Null
    THEN Request("handleSubmit", "update", editingEvent.id, formData, <<>>)
    ELSE Request("handleSubmit", "insert", 0, formData, <<>>)

\* handleSubmit up to its await; the browser runs it only when the required
\* inputs (title, date) are filled.
HandleSubmit ==
    /\ ops < MaxOps /\ ops' = ops + 1
    /\ EventManagerShown /\ CanIssue
    /\ formData.title # "" /\ formData.event_date # 0
    /\ inflight' = Send(SubmitRequest)
    /\ last' = Step("handleSubmit", SubmitRequest.id, TRUE, NoToast)
    /\ UNCHANGED <<mounted, imageVars, dbVars, pageVars, eventVars,
                   messageVars, memberVars>>

\* The continuation of handleSubmit after its await.
HandleSubmitDone(r) ==
    /\ UNCHANGED ops
    /\ mounted = "EventManager"
    /\ r \in Pending("handleSubmit")
    /\ IF Throws(r)
       THEN /\ inflight' = Drop(r)
            /\ last' = Resumed("handleSubmit", r.id, FALSE, "Kunne ikke lagre arrangement")
            /\ UNCHANGED <<editingEvent, formData>>
       ELSE /\ editingEvent' = Null
            /\ formData' = DefaultFormData
            /\ inflight' = Drop(r) (+) SetToBag({FetchEventsRequest})
            /\ last' = Resumed("handleSubmit", r.id, TRUE,
                            IF r.kind = "update" THEN "Arrangement oppdatert"
                                                 ELSE "Arrangement opprettet")
    /\ UNCHANGED <<mounted, imageVars, dbVars, pageVars, events, loading,
                   messageVars, memberVars>>

\* Whether handleDelete / deleteMessage goes on after its confirm() dialog.
ProceedsUnconfirmed(accepted) == TRUE
Proceeds(accepted) == accepted

\* handleDelete up to its await (or to its early return).
HandleDelete(id, accepted) ==
    /\ ops < MaxOps /\ ops' = ops + 1
    /\ EventManagerShown
    /\ \E i \in 1..Len(events) : events[i].id = id
    /\ Proceeds(accepted) => CanIssue
    /\ inflight' = IF Proceeds(accepted)
                   THEN Send(Request("handleDelete", "delete", id, EmptyPatch, <<>>))
                   ELSE inflight
    /\ last' = Step("handleDelete", id, accepted, NoToast)
    /\ UNCHANGED <<mounted, imageVars, dbVars, pageVars, eventVars,
                   messageVars, memberVars>>

\* The continuation of handleDelete after its await.
HandleDeleteDone(r) ==
    /\ UNCHANGED ops
    /\ mounted = "EventManager"
    /\ r \in Pending("handleDelete")
    /\ IF Throws(r)
       THEN /\ inflight' = Drop(r)
            /\ last' = Resumed("handleDelete", r.id, FALSE, "Kunne ikke slette arrangement")
       ELSE /\ inflight' = Drop(r) (+) SetToBag({FetchEventsRequest})
            /\ last' = Resumed("handleDelete", r.id, TRUE, "Arrangement slettet")
    /\ UNCHANGED <<mounted, imageVars, dbVars, pageVars, eventVars,
                   messageVars, memberVars>>

\* handleStatusChange up to its await; `events` of the render it was called
\* from is captured for the continuation.  The selector fires onChange only
\* for an option other than the one shown.
HandleStatusChange(i, newStatus) ==
    /\ ops < MaxOps /\ ops' = ops + 1
    /\ EventManagerShown /\ CanIssue
    /\ i \in 1..Len(events)
    /\ newStatus # events[i].status
    /\ inflight' = Send(Nth(Request("handleStatusChange", "update", events[i].id,
                                    [status |-> newStatus], events), ops + 1))
    /\ last' = Step("handleStatusChange", events[i].id, TRUE, NoToast)
    /\ UNCHANGED <<mounted, imageVars, dbVars, pageVars, eventVars,
                   messageVars, memberVars>>

\* events.map(event => event.id === id ? { ...event, status: newStatus } : event)
MapStatus(list, id, newStatus) ==
    [i \in 1..Len(list) |->
        IF list[i].id = id THEN [list[i] EXCEPT !.status = newStatus] ELSE list[i]]

\* The continuation of handleStatusChange after its await.
HandleStatusChangeDone(r) ==
    /\ UNCHANGED ops
    /\ mounted = "EventManager"
    /\ r \in Pending("handleStatusChange")
    /\ IF Throws(r)
       THEN /\ UNCHANGED events
            /\ last' = Resumed("handleStatusChange", r.id, FALSE, "Kunne ikke oppdatere status")
       ELSE /\ events' = MapStatus(r.snap, r.id, r.patch.status)
            /\ last' = Resumed("handleStatusChange", r.id, TRUE, "Status oppdatert")
    /\ inflight' = Drop(r)
    /\ UNCHANGED <<mounted, imageVars, dbVars, pageVars, loading, editingEvent,
                   formData, messageVars, memberVars>>

\* handleEdit(event) for the i-th row of the list.
HandleEdit(i) ==
    /\ ops < MaxOps /\ ops' = ops + 1
    /\ EventManagerShown
    /\ i \in 1..Len(events)
    /\ editingEvent' = events[i]
    /\ formData' = [title |-> events[i].title,
                    event_date |-> events[i].event_date,
                    status |-> events[i].status,
                    festival |-> events[i].festival]
    /\ last' = Step("handleEdit", events[i].id, TRUE, NoToast)
    /\ UNCHANGED <<mounted, imageVars, dbVars, inflight, pageVars, events,
                   loading, messageVars, memberVars>>

\* Cancel that leaves editing and keeps what the form holds.
CancelEditKeepsForm ==
    /\ ops < MaxOps /\ ops' = ops + 1
    /\ EventManagerShown
    /\ editingEvent # Null
    /\ editingEvent' = Null
    /\ last' = Step("cancelEdit", 0, TRUE, NoToast)
    /\ UNCHANGED <<mounted, imageVars, dbVars, inflight, pageVars, events,
                   loading, formData, messageVars, memberVars>>

\* onClick of "Avbryt Redigering", rendered while an event is being edited.
CancelEdit ==
    /\ ops < MaxOps /\ ops' = ops + 1
    /\ EventManagerShown
    /\ editingEvent # Null
    /\ editingEvent' = Null
    /\ formData' = DefaultFormData
    /\ last' = Step("cancelEdit", 0, TRUE, NoToast)
    /\ UNCHANGED <<mounted, imageVars, dbVars, inflight, pageVars, events,
                   loading, messageVars, memberVars>>

\* -------------------------------------------------------- ContactMessages

\* The list is rendered once loading is false.
ContactMessagesShown == mounted = "ContactMessages" /\ ~msgLoading

Shown(id) == \E i \in 1..Len(messages) : messages[i].id = id

\* fetchMessages() up to its await.
FetchMessagesRequest == Request("fetchMessages", "select", 0, EmptyPatch, <<>>)

\* notesState[message.id] = message.admin_notes || ''  for every fetched row
NotesState(data) ==
    [id \in {data[i].id : i \in 1..Len(data)} |->
        LET row == CHOOSE row \in {data[i] : i \in 1..Len(data)} : row.id = id
        IN  IF row.admin_notes = NullNotes THEN "" ELSE row.admin_notes]

\* The continuation of fetchMessages after its await.
FetchMessagesDone(r) ==
    /\ UNCHANGED ops
    /\ mounted = "ContactMessages"
    /\ r \in Pending("fetchMessages")
    /\ IF Throws(r)
       THEN /\ UNCHANGED <<messages, editingNotes>>
            /\ last' = Resumed("fetchMessages", 0, FALSE, "Could not fetch messages")
       ELSE /\ editingNotes' = NotesState(r.data)
            /\ messages' = r.data
            /\ last' = Resumed("fetchMessages", 0, TRUE, NoToast)
    /\ msgLoading' = FALSE
    /\ inflight' = Drop(r)
    /\ UNCHANGED <<mounted, imageVars, dbVars, pageVars, eventVars, memberVars>>

\* editingNotes[message.id] || ''
NotesValue(id) == IF id \in DOMAIN editingNotes THEN editingNotes[id] ELSE ""

\* onChange of the notes textarea of message `id`.
ChangeNotes(id, text) ==
    /\ ops < MaxOps /\ ops' = ops + 1
    /\ ContactMessagesShown /\ Shown(id)
    /\ text # NotesValue(id)
    /\ editingNotes' = (id :> text) @@ editingNotes
    /\ last' = Step("onChange", id, TRUE, NoToast)
    /\ UNCHANGED <<mounted, imageVars, dbVars, inflight, pageVars, eventVars,
                   messages, msgLoading, memberVars>>

\* The columns updateStatus and updateAdminNotes write.
StatusPatchWithNotes(id, status) == [status |-> status, admin_notes |-> NotesValue(id)]
StatusPatchMisspelt(id, status) ==
    [status |-> IF status = "in_progress" THEN "in-progress" ELSE status]
StatusPatch(id, status) == [status |-> status]

NotesPatch(id) ==
    IF id \in DOMAIN editingNotes THEN [admin_notes |-> editingNotes[id]]
    ELSE EmptyPatch

\* updateStatus up to its await; the selector fires onChange only for an
\* option other than the one shown.
UpdateStatus(id, status) ==
    /\ ops < MaxOps /\ ops' = ops + 1
    /\ ContactMessagesShown /\ CanIssue
    /\ \E i \in 1..Len(messages) : messages[i].id = id /\ messages[i].status # status
    /\ inflight' = Send(Nth(Request("updateStatus", "update", id,
                                    StatusPatch(id, status), <<>>), ops + 1))
    /\ last' = Step("updateStatus", id, TRUE, NoToast)
    /\ UNCHANGED <<mounted, imageVars, dbVars, pageVars, eventVars,
                   messageVars, memberVars>>

\* updateAdminNotes up to its await.
UpdateAdminNotes(id) ==
    /\ ops < MaxOps /\ ops' = ops + 1
    /\ ContactMessagesShown /\ CanIssue /\ Shown(id)
    /\ inflight' = Send(Request("updateAdminNotes", "update", id, NotesPatch(id), <<>>))
    /\ last' = Step("updateAdminNotes", id, TRUE, NoToast)
    /\ UNCHANGED <<mounted, imageVars, dbVars, pageVars, eventVars,
                   messageVars, memberVars>>

\* deleteMessage up to its await (or to its early return).
DeleteMessage(id, accepted) ==
    /\ ops < MaxOps /\ ops' = ops + 1
    /\ ContactMessagesShown /\ Shown(id)
    /\ Proceeds(accepted) => CanIssue
    /\ inflight' = IF Proceeds(accepted)
                   THEN Send(Request("deleteMessage", "delete", id, EmptyPatch, <<>>))
                   ELSE inflight
    /\ last' = Step("deleteMessage", id, accepted, NoToast)
    /\ UNCHANGED <<mounted, imageVars, dbVars, pageVars, eventVars,
                   messageVars, memberVars>>

SuccessToast(caller) ==
    CASE caller = "updateStatus" -> "Status updated"
      [] caller = "updateAdminNotes" -> "Notes updated"
      [] caller = "deleteMessage" -> "Melding slettet"

ErrorToast(caller) ==
    CASE caller = "updateStatus" -> "Could not update status"
      [] caller = "updateAdminNotes" -> "Could not update notes"
      [] caller = "deleteMessage" -> "Kunne ikke slette melding"

\* The continuation of updateStatus, updateAdminNotes and deleteMessage
\* after the await: a toast, and on success fetchMessages().
MessageWriteDone(r) ==
    /\ UNCHANGED ops
    /\ mounted = "ContactMessages"
    /\ r \in Pending("updateStatus") \cup Pending("updateAdminNotes")
                \cup Pending("deleteMessage")
    /\ IF Throws(r)
       THEN /\ inflight' = Drop(r)
            /\ last' = Resumed(r.caller, r.id, FALSE, ErrorToast(r.caller))
       ELSE /\ inflight' = Drop(r) (+) SetToBag({FetchMessagesRequest})
            /\ last' = Resumed(r.caller, r.id, TRUE, SuccessToast(r.caller))
    /\ UNCHANGED <<mounted, imageVars, dbVars, pageVars, eventVars,
                   messageVars, memberVars>>

\* handleReply: the mail client is opened; no state of the component changes.
HandleReply(id) ==
    /\ ops < MaxOps /\ ops' = ops + 1
    /\ ContactMessagesShown /\ Shown(id)
    /\ last' = Step("handleReply", id, TRUE, NoToast)
    /\ UNCHANGED <<mounted, imageVars, dbVars, inflight, pageVars, eventVars,
                   messageVars, memberVars>>

\* --------------------------------------------------------- MembershipForm

AGE_GROUPS == {"Under 18", "18-25", "26-35", "36-60", "Over 60"}

CheckoutUrl ==
    "https://event.checkin.no/139486/medlemskap-2025?fbclid=IwY2xjawLXSCRleHRuA2FlbQIxMABicmlkETFEbUFTOWNCZm9xSG9BOTlFAR5ngijSdRJ2Kfi2XKvhspY8HmCkfC0VMFcmgS2L1bf0TxfXalIxIw6o4tGhkw_aem_RvErzvAQ4nDpV1uu_VUUAA"

\* The initial and the reset value of the form's formData.
EmptyMemberData ==
    [name |-> "", email |-> <<>>, phone |-> "", location |-> "",
     ageGroup |-> "", motivation |-> ""]

\* The values each input of the form can be given.
MemberInputs(field) ==
    CASE field = "name" -> Names
      [] field = "email" -> Emails
      [] field = "phone" -> Phones
      [] field = "location" -> Locations
      [] field = "ageGroup" -> {"", "Under 18", "Over 60"}
      [] field = "motivation" -> Motivations

\* The form is on screen until the browser has navigated away.
MembershipFormShown == mounted = "MembershipForm" /\ href = "form"

\* onChange of an input of the form.
ChangeMember(field, value) ==
    /\ UNCHANGED ops
    /\ MembershipFormShown
    /\ value # memberData[field]
    /\ memberData' = [memberData EXCEPT ![field] = value]
    /\ last' = Step("onChange", 0, TRUE, NoToast)
    /\ UNCHANGED <<mounted, imageVars, dbVars, inflight, pageVars, eventVars,
                   messageVars, submitted, submitting, href>>

\* <input type="email">: one '@' with a non-empty part on either side.
ValidEmail(e) ==
    \E i \in 2..(Len(e) - 1) :
        /\ e[i] = "@"
        /\ \A j \in 1..Len(e) : j # i => e[j] # "@"

\* The browser's validation of the form: the inputs marked required are
\* non-empty and the e-mail input holds an address.
FormValidLocationOptional(data) ==
    /\ data.name # ""
    /\ data.email # <<>> /\ ValidEmail(data.email)
    /\ data.ageGroup # ""

FormValid(data) ==
    /\ data.name # ""
    /\ data.email # <<>> /\ ValidEmail(data.email)
    /\ data.location # ""
    /\ data.ageGroup # ""

\* The user submits the form (the button, or Enter in an input).  The
\* browser runs handleSubmit, up to its await, only when the button is not
\* disabled (disabled={submitting}) and the form is valid.
SubmitMembership ==
    /\ UNCHANGED ops
    /\ MembershipFormShown
    /\ LET accepted == ~submitting /\ FormValid(memberData) IN
       /\ IF accepted
          THEN /\ submitting' = TRUE
               /\ inflight' = Send(Request("MembershipForm.handleSubmit", "store",
                                           0, memberData, <<>>))
          ELSE UNCHANGED <<submitting, inflight>>
       /\ last' = Step("submit", 0, accepted, NoToast)
    /\ UNCHANGED <<mounted, imageVars, dbVars, pageVars, eventVars,
                   messageVars, memberData, submitted, href>>

\* submitMembershipForm of the form store: it persists the data or fails,
\* and returns either way.
SubmitMembershipForm(r) ==
    /\ UNCHANGED ops
    /\ r.phase = "sent" /\ r.kind = "store"
    /\ \E failed \in BOOLEAN :
        /\ Responded(r, failed, <<>>)
        /\ last' = Step("submitMembershipForm", 0, ~failed, NoToast)
    /\ UNCHANGED <<mounted, imageVars, dbVars, pageVars, eventVars,
                   messageVars, memberVars>>

\* Whether handleSubmit goes on to reset, banner and navigation after the
\* store action has returned.
GoesOnIfStored(r) == ~r.error
GoesOn(r) == TRUE

\* The continuation of MembershipForm.handleSubmit after its await.
MembershipSubmitDone(r) ==
    /\ UNCHANGED ops
    /\ mounted = "MembershipForm"
    /\ r \in Pending("MembershipForm.handleSubmit")
    /\ IF GoesOn(r)
       THEN /\ memberData' = EmptyMemberData
            /\ submitted' = TRUE
            /\ href' = CheckoutUrl
       ELSE UNCHANGED <<memberData, submitted, href>>
    /\ inflight' = Drop(r)
    /\ last' = Resumed("MembershipForm.handleSubmit", 0, ~r.error, NoToast)
    /\ UNCHANGED <<mounted, imageVars, dbVars, pageVars, eventVars,
                   messageVars, submitting>>

\* ------------------------------------------------------ the specifications

Components == {"EventImage", "MusikkfestPage", "EventManager",
               "ContactMessages", "MembershipForm"}

\* The tables the backend may hold when a component is mounted.
EventFields == Titles \X Dates \X EventStatuses \X Festivals
EventTables ==
    UNION {{{EventRow(i, f[i][1], f[i][2], f[i][3], f[i][4]) : i \in 1..k} :
                f \in [1..k -> EventFields]} : k \in 0..MaxEvents}

\* The events tables EventManager is mounted on: concerts of the festival,
\* still drafts, dated in every way.
ManagedEventTables ==
    UNION {{{EventRow(i, "Konsert", date[i], "draft", "musikkfest") : i \in 1..k} :
                date \in [1..k -> Dates]} : k \in 0..MaxEvents}

\* The contact_messages tables ContactMessages is mounted on: new messages,
\* with and without notes.
MessageTables ==
    UNION {{{MessageRow(i, notes[i], "new") : i \in 1..k} :
                notes \in [1..k -> {NullNotes, "ring tilbake"}]} : k \in 0..MaxMessages}

\* The request the mount effect of a component issues.
MountRequests ==
    CASE mounted = "MusikkfestPage" ->
            SetToBag({Request("fetchMusikkfestEvents", "select", 0, EmptyPatch, <<>>)})
      [] mounted = "EventManager" -> SetToBag({FetchEventsRequest})
      [] mounted = "ContactMessages" -> SetToBag({FetchMessagesRequest})
      [] OTHER -> EmptyBag

Init ==
    /\ mounted \in Components
    /\ aspect = "aspect-[4/3]"
    /\ natural = <<>>
    /\ dbEvents \in CASE mounted = "MusikkfestPage" -> EventTables
                       [] mounted = "EventManager" -> ManagedEventTables
                       [] OTHER -> {{}}
    /\ nextEventId = Cardinality(dbEvents) + 1
    /\ dbMessages \in IF mounted = "ContactMessages" THEN MessageTables ELSE {{}}
    /\ inflight = MountRequests
    /\ pageEvents = <<>>
    /\ pageLoading = TRUE
    /\ selectedEvent = Null
    /\ events = <<>>
    /\ loading = TRUE
    /\ editingEvent = Null
    /\ formData = DefaultFormData
    /\ messages = <<>>
    /\ msgLoading = TRUE
    /\ editingNotes = <<>>
    /\ memberData = EmptyMemberData
    /\ submitted = FALSE
    /\ submitting = FALSE
    /\ href = "form"
    /\ ops = 0
    /\ last = Step("mount", 0, TRUE, NoToast)

NextImage == \E w, h \in 0..MaxDim : HandleImageLoad(w, h)

NextPage ==
    \/ \E r \in InFlight : FetchMusikkfestEventsDone(r)
    \/ \E i \in 1..MaxEvents : SelectCard(i)
    \/ CloseModal

NextEvents ==
    \/ \E r \in InFlight : FetchEventsDone(r)
    \/ \E title \in Titles \cup {""} : ChangeTitle(title)
    \/ \E date \in Dates \cup {0} : ChangeDate(date)
    \/ \E festival \in Festivals : ChangeFestival(festival)
    \/ HandleSubmit
    \/ \E r \in InFlight : HandleSubmitDone(r)
    \/ \E id \in EventIds, accepted \in BOOLEAN : HandleDelete(id, accepted)
    \/ \E r \in InFlight : HandleDeleteDone(r)
    \/ \E i \in 1..MaxEvents, newStatus \in EventStatuses : HandleStatusChange(i, newStatus)
    \/ \E r \in InFlight : HandleStatusChangeDone(r)
    \/ \E i \in 1..MaxEvents : HandleEdit(i)
    \/ CancelEdit

NextMessages ==
    \/ \E r \in InFlight : FetchMessagesDone(r)
    \/ \E id \in MessageIds, text \in NoteTexts : ChangeNotes(id, text)
    \/ \E id \in MessageIds, status \in MessageStatuses : UpdateStatus(id, status)
    \/ \E id \in MessageIds : UpdateAdminNotes(id)
    \/ \E id \in MessageIds, accepted \in BOOLEAN : DeleteMessage(id, accepted)
    \/ \E r \in InFlight : MessageWriteDone(r)
    \/ \E id \in MessageIds : HandleReply(id)

NextMembership ==
    \/ \E field \in DOMAIN EmptyMemberData :
         \E value \in MemberInputs(field) : ChangeMember(field, value)
    \/ SubmitMembership
    \/ \E r \in InFlight : SubmitMembershipForm(r)
    \/ \E r \in InFlight : MembershipSubmitDone(r)

Next ==
    \/ NextImage
    \/ NextPage
    \/ NextEvents
    \/ NextMessages
    \/ NextMembership
    \/ Backend

\* Every component, each mounted on its own.
Spec == Init /\ [][Next]_vars

InitImage == Init /\ mounted = "EventImage"
SpecImage == InitImage /\ [][NextImage]_vars

InitPage == Init /\ mounted = "MusikkfestPage"
SpecPage == InitPage /\ [][NextPage \/ Backend]_vars

InitEvents == Init /\ mounted = "EventManager"
SpecEvents == InitEvents /\ [][NextEvents \/ Backend]_vars

InitMessages == Init /\ mounted = "ContactMessages"
SpecMessages == InitMessages /\ [][NextMessages \/ Backend]_vars

InitMembership == Init /\ mounted = "MembershipForm"
SpecMembership == InitMembership /\ [][NextMembership]_vars

\* EventManager and ContactMessages, the two admin components.
SpecAdmin ==
    /\ InitEvents \/ InitMessages
    /\ [][NextEvents \/ NextMessages \/ Backend]_vars

\* MusikkfestPage and EventManager, the two components that list events.
SpecListing ==
    /\ InitPage \/ InitEvents
    /\ [][NextPage \/ NextEvents \/ Backend]_vars

\* No two inline status changes of one event are in flight together.
ChangesApart ==
    \A r, q \in InFlight :
        (/\ r.caller = "handleStatusChange" /\ q.caller = "handleStatusChange"
         /\ r.id = q.id) => r = q

\* The backend processes one request that is in flight, and refuses none.
BackendSucceeds ==
    \E r \in InFlight :
        \/ ApplySelect(r)
        \/ ApplyUpdate(r)
        \/ ApplyDelete(r)

\* EventManager as the only writer, the admin changing statuses inline (never
\* of an event whose earlier change is still in flight) and deleting events,
\* with the refetches that follow, and every request succeeding.
NextInterleaving ==
    \/ \E r \in InFlight : FetchEventsDone(r)
    \/ \E id \in EventIds, accepted \in BOOLEAN : HandleDelete(id, accepted)
    \/ \E r \in InFlight : HandleDeleteDone(r)
    \/ \E i \in 1..MaxEvents, newStatus \in EventStatuses :
          HandleStatusChange(i, newStatus) /\ ChangesApart'
    \/ \E r \in InFlight : HandleStatusChangeDone(r)
    \/ BackendSucceeds

SpecInterleaving == InitEvents /\ [][NextInterleaving]_vars

\* ------------------------------------------------------------- properties

\* The step resolves request r: its continuation runs and r leaves the bag.
Resolves(r) ==
    /\ r \in InFlight /\ r.phase = "done"
    /\ CopiesIn(r, inflight') < CopiesIn(r, inflight)

\* The step is the backend processing request r without error.
Applies(r) ==
    /\ r \in InFlight /\ r.phase = "sent"
    /\ CopiesIn(r, inflight') < CopiesIn(r, inflight)
    /\ \E d \in BagToSet(inflight') :
         /\ d = [r EXCEPT !.phase = "done", !.data = d.data]
         /\ CopiesIn(d, inflight') > CopiesIn(d, inflight)

\* The step issues request r.
Issues(r) ==
    /\ r \in BagToSet(inflight') /\ r.phase = "sent"
    /\ CopiesIn(r, inflight') > CopiesIn(r, inflight)

\* C1: after a load of an image of positive natural width w and height h the
\* aspect class is wide exactly when w/h > 1.7, tall exactly when w/h < 0.8
\* and standard otherwise, so that w/h = 1.7 and w/h = 0.8 are standard.
C1_AspectBuckets ==
    (natural # <<>> /\ natural[1] > 0 /\ natural[2] > 0) =>
        LET w == natural[1]
            h == natural[2]
        IN  /\ aspect = "aspect-[16/9]" <=> 10 * w > 17 * h
            /\ aspect = "aspect-[3/4]" <=> 10 * w < 8 * h
            /\ aspect = "aspect-[4/3]" <=> (8 * h <= 10 * w /\ 10 * w <= 17 * h)

\* An image of ratio exactly 1.7 has been loaded and is shown standard.
C1_Witness == natural = <<17, 10>> /\ aspect = "aspect-[4/3]"

\* C2: the public list renders no card for an event titled "Grendedag", and
\* the event shown in the modal is never such an event.
C2_NoGrendedag ==
    /\ \A i \in 1..Len(Cards) : Cards[i].title # "Grendedag"
    /\ selectedEvent # Null => selectedEvent.title # "Grendedag"

\* A Grendedag event was fetched, is held back, and another event is open
\* in the modal.
C2_Witness ==
    /\ ~pageLoading
    /\ \E i \in 1..Len(pageEvents) : pageEvents[i].title = "Grendedag"
    /\ Len(Cards) < Len(pageEvents)
    /\ selectedEvent # Null

\* C3: handleDelete and deleteMessage issue a delete request only in a step
\* in which the confirmation was accepted; a declined confirmation issues
\* no request and leaves the tables and the component state as they were.
C3_DeleteNeedsConfirmation ==
    [][/\ \A r \in BagToSet(inflight') :
            (Issues(r) /\ r.kind = "delete") =>
                /\ last'.op \in {"handleDelete", "deleteMessage"}
                /\ last'.at = "call" /\ last'.ok /\ last'.id = r.id
       /\ (last'.op \in {"handleDelete", "deleteMessage"}
              /\ last'.at = "call" /\ ~last'.ok) =>
                UNCHANGED <<dbVars, inflight, eventVars, messageVars>>
      ]_vars

\* A confirmation was declined while the row was stored and listed.
C3_Witness ==
    /\ last.op = "handleDelete" /\ last.at = "call" /\ ~last.ok
    /\ \E row \in dbEvents : row.id = last.id
    /\ inflight = EmptyBag

\* The step leaves contact_messages as it was but for `column` of row id.
SameBut(column, id) ==
    /\ {row.id : row \in dbMessages'} = {row.id : row \in dbMessages}
    /\ \A row \in dbMessages : \A new \in dbMessages' :
          new.id = row.id =>
              /\ row.id # id => new = row
              /\ new = [row EXCEPT ![column] = new[column]]

\* C4: the write of updateStatus changes no stored admin_notes and the write
\* of updateAdminNotes changes no stored status; neither changes a row other
\* than the one it names, and neither adds nor removes a row.
C4_SeparateWrites ==
    [][\A r \in InFlight :
          /\ (r.caller = "updateStatus" /\ Applies(r)) => SameBut("status", r.id)
          /\ (r.caller = "updateAdminNotes" /\ Applies(r)) => SameBut("admin_notes", r.id)
      ]_vars

\* A row holds a changed status and notes that were saved from the buffer.
C4_Witness ==
    \E row \in dbMessages :
        row.status # "new" /\ row.admin_notes \notin {NullNotes, "ring tilbake"}

\* name, email, location and ageGroup are all non-empty.
RequiredFilled(data) ==
    data.name # "" /\ data.email # <<>> /\ data.location # "" /\ data.ageGroup # ""

\* The step calls the store action with the form data.
StoreCalled ==
    /\ Issues(Request("MembershipForm.handleSubmit", "store", 0, memberData, <<>>))
    /\ submitting'

\* C5 as claimed: a submission is accepted (the store action is called with
\* the form data) exactly when name, email, location and ageGroup are all
\* non-empty.
C5_AcceptedIffRequiredFilled ==
    [][(last'.op = "submit" /\ last'.at = "call") =>
          (StoreCalled <=> RequiredFilled(memberData))]_vars

\* C5, amended: a submission is rejected when one of the four is empty, and
\* accepted exactly when all four are non-empty, the email is a well-formed
\* address and no earlier submission has disabled the button.
C5_AcceptedIffValid ==
    [][(last'.op = "submit" /\ last'.at = "call") =>
          /\ ~RequiredFilled(memberData) => (~StoreCalled /\ UNCHANGED inflight)
          /\ StoreCalled <=> /\ RequiredFilled(memberData)
                             /\ ValidEmail(memberData.email)
                             /\ ~submitting
      ]_vars

\* A submission with both optional fields empty was accepted.
C5_Witness ==
    /\ last.op = "submit" /\ last.at = "call" /\ last.ok
    /\ memberData.phone = "" /\ memberData.motivation = ""
    /\ submitting /\ inflight # EmptyBag

\* C6: once the store action called by an accepted submission has returned,
\* whatever its outcome, the form fields are empty, the success banner is
\* set and the browser is at the checkout URL.
C6_ResetBannerNavigate ==
    (submitting /\ inflight = EmptyBag) =>
        /\ memberData = EmptyMemberData
        /\ submitted
        /\ href = CheckoutUrl

\* The store action failed and the browser is at the checkout URL.
C6_Witness ==
    /\ last.op = "MembershipForm.handleSubmit" /\ last.at = "await" /\ ~last.ok
    /\ submitted /\ href = CheckoutUrl /\ memberData = EmptyMemberData

\* The list is in ascending order of its rows' event_date.
Ascending(list) ==
    \A i, j \in 1..Len(list) : i < j => list[i].event_date <= list[j].event_date

\* C7: the cards of the public list and the rows of the admin list are in
\* ascending order of event_date.
C7_RenderedAscending == Ascending(Cards) /\ Ascending(events)

\* The admin list, rebuilt by a successful inline status change, shows two
\* events of different dates.
C7_Witness ==
    /\ last.op = "handleStatusChange" /\ last.at = "await" /\ last.ok
    /\ Len(events) = 2 /\ events[1].event_date < events[2].event_date
    /\ events[1].status # events[2].status

\* The handlers that write, and the error toasts they raise.
Mutations == {"handleSubmit", "handleDelete", "handleStatusChange",
              "updateStatus", "updateAdminNotes", "deleteMessage"}

ErrorToasts == {"Kunne ikke lagre arrangement", "Kunne ikke slette arrangement",
                "Kunne ikke oppdatere status", "Could not update status",
                "Could not update notes", "Kunne ikke slette melding"}

\* C8: when the response to an admin mutation carries an error, its
\* continuation raises the error toast of its handler, leaves the
\* component state as it was and issues no request.
C8_FailureLeavesState ==
    [][\A r \in InFlight :
          (r.caller \in Mutations /\ r.error /\ Resolves(r)) =>
              /\ last'.toast \in ErrorToasts
              /\ UNCHANGED <<eventVars, messageVars, dbVars>>
              /\ inflight' = Drop(r)
      ]_vars

\* An inline status change failed while an event was being edited.
C8_Witness ==
    /\ last.op = "handleStatusChange" /\ last.at = "await" /\ ~last.ok
    /\ editingEvent # Null /\ Len(events) > 0

\* C9: the continuation of every backend call whose response carries an
\* error raises a notification.
C9_FailuresNotified ==
    (last.at = "await" /\ ~last.ok) => last.toast # NoToast

\* The buffer of message id holds text that is not what is stored.
Unsaved(id) ==
    /\ id \in DOMAIN editingNotes
    /\ \E row \in dbMessages :
          /\ row.id = id
          /\ editingNotes[id] # (IF row.admin_notes = NullNotes THEN "" ELSE row.admin_notes)

\* C10: the unsaved notes buffer of a message that stays stored is changed
\* by no step other than typing into that message's notes field.
C10_BufferKept ==
    [][\A id \in MessageIds :
          (/\ Unsaved(id)
           /\ \E row \in dbMessages' : row.id = id
           /\ ~(last'.op = "onChange" /\ last'.at = "call" /\ last'.id = id)) =>
                 (id \in DOMAIN editingNotes' /\ editingNotes'[id] = editingNotes[id])
      ]_vars

\* C11: after a load of an image whose natural width or natural height (or
\* both) is 0, the aspect class is the default, standard one.
C11_ZeroDimensionsDefault ==
    (natural # <<>> /\ (natural[1] = 0 \/ natural[2] = 0)) =>
        aspect = "aspect-[4/3]"

\* The inline changes of status, of events and of contact messages.
StatusChanges == {"handleStatusChange", "updateStatus"}

\* The status stored for row id of the table the request r is on.
StoredStatus(r, events_, messages_) ==
    {row.status : row \in {row \in (IF OnEvents(r) THEN events_ ELSE messages_) :
                             row.id = r.id}}

\* C12: the stored status of every event and of every contact message is one
\* of the three values of its enumeration; an inline change to any value
\* other than the one shown is accepted whatever the status shown, and once
\* the backend has applied it without error the value is the stored status.
C12_AnyStatusToAny ==
    /\ [](/\ \A row \in dbEvents : row.status \in EventStatuses
          /\ \A row \in dbMessages : row.status \in MessageStatuses)
    /\ [](\A i \in 1..MaxEvents, s \in EventStatuses :
            (/\ EventManagerShown /\ CanIssue /\ ops < MaxOps
             /\ i \in 1..Len(events) /\ s # events[i].status)
                => ENABLED HandleStatusChange(i, s))
    /\ [](\A id \in MessageIds, s \in MessageStatuses :
            (/\ ContactMessagesShown /\ CanIssue /\ ops < MaxOps
             /\ \E i \in 1..Len(messages) :
                   messages[i].id = id /\ messages[i].status # s)
                => ENABLED UpdateStatus(id, s))
    /\ [][\A r \in InFlight :
            (r.caller \in StatusChanges /\ Applies(r)) =>
                StoredStatus(r, dbEvents', dbMessages') \subseteq {r.patch.status}
         ]_vars

\* An event that had left draft is stored as draft again by an inline change.
C12_Witness ==
    \E r \in InFlight :
        /\ r.caller = "handleStatusChange" /\ r.phase = "done" /\ ~r.error
        /\ r.patch.status = "draft"
        /\ \E row \in dbEvents : row.id = r.id /\ row.status = "draft"

\* C13: handleSubmit issues exactly one request: with an event selected for
\* editing an update of the row of that event's id, with none selected an
\* insert.  After a save that succeeded, and after Cancel, editingEvent is
\* null and formData has its default values.
C13_FormMode ==
    [][/\ (last'.op = "handleSubmit" /\ last'.at = "call") =>
            \E r \in BagToSet(inflight') :
                /\ Issues(r) /\ inflight' = Send(r)
                /\ r.caller = "handleSubmit" /\ r.patch = formData
                /\ IF editingEvent # Null
                   THEN r.kind = "update" /\ r.id = editingEvent.id
                   ELSE r.kind = "insert"
       /\ (\/ last'.op = "handleSubmit" /\ last'.at = "await" /\ last'.ok
           \/ last'.op = "cancelEdit") =>
                editingEvent' = Null /\ formData' = DefaultFormData
      ]_vars

\* The update of an edited event succeeded and the form is in create mode.
C13_Witness ==
    /\ last.op = "handleSubmit" /\ last.at = "await" /\ last.ok
    /\ last.toast = "Arrangement oppdatert" /\ last.id \in EventIds
    /\ editingEvent = Null /\ formData = DefaultFormData

\* The step takes request r out of the requests in flight.
Leaves(r) == CopiesIn(r, inflight') < CopiesIn(r, inflight)

\* The step answers request r: r is in flight as answered from now on.
Answers(r) ==
    \E d \in BagToSet(inflight') :
        /\ d = [r EXCEPT !.phase = "done", !.error = d.error, !.data = d.data]
        /\ CopiesIn(d, inflight') > CopiesIn(d, inflight)

\* C14: requests are never cancelled and carry no order: a request leaves
\* the requests in flight only by being answered by the backend and, once
\* answered, by its own continuation; the backend can apply an inline status
\* change as soon as it is issued, whatever else is in flight; and the
\* continuation of a status change writes nothing to the tables.  So of two
\* status changes of one record issued one after the other, the one issued
\* first may be applied last and its value be the one stored.
C14_NoOrderNoCancel ==
    /\ [](\A r \in InFlight :
            (r.caller \in StatusChanges /\ r.phase = "sent") => ENABLED ApplyUpdate(r))
    /\ [][\A r \in InFlight :
            /\ Leaves(r) =>
                  \/ /\ r.phase = "sent" /\ Answers(r)
                     /\ last'.op = "backend" /\ last'.at = "call"
                  \/ /\ r.phase = "done"
                     /\ last'.op = r.caller /\ last'.at = "await"
                     /\ last'.ok = ~r.error
            /\ (r.caller \in StatusChanges /\ Resolves(r)) => UNCHANGED dbVars
         ]_vars

\* Two status changes of one record were issued before either resolved,
\* both are answered without error, and the value stored is the one issued
\* first.
C14_Witness ==
    \E first, second \in InFlight :
        /\ first.caller \in StatusChanges /\ second.caller = first.caller
        /\ first.id = second.id /\ first.nth < second.nth
        /\ first.phase = "done" /\ second.phase = "done"
        /\ ~first.error /\ ~second.error
        /\ first.patch.status # second.patch.status
        /\ StoredStatus(first, dbEvents, dbMessages) = {first.patch.status}

\* The local list holds exactly the stored events, each once and as stored.
ListAgrees ==
    /\ Len(events) = Cardinality(dbEvents)
    /\ {events[i] : i \in 1..Len(events)} = dbEvents

\* C15: whenever no request is in flight (every request having succeeded),
\* the local events list of EventManager holds exactly the stored events and
\* shows for each its stored status.
C15_ListAgreesWithStore == inflight = EmptyBag => ListAgrees

\* C16: whenever editingEvent is null, formData.status is 'draft'; every
\* insert handleSubmit issues carries status 'draft', and the row the
\* backend stores for it has status 'draft'.
C16_CreateModeDraft ==
    /\ [](/\ editingEvent = Null => formData.status = "draft"
          /\ \A r \in InFlight : r.kind = "insert" => r.patch.status = "draft")
    /\ [][\A r \in InFlight :
            (r.kind = "insert" /\ Applies(r)) =>
                \A row \in dbEvents' \ dbEvents : row.status = "draft"
         ]_vars

\* Editing was cancelled while the only event listed and stored had left
\* draft, and the form is in create mode with status draft.
C16_Witness ==
    /\ last.op = "cancelEdit" /\ inflight = EmptyBag
    /\ editingEvent = Null /\ formData.status = "draft"
    /\ Len(events) = 1 /\ events[1].status # "draft"
    /\ \A row \in dbEvents : row.status # "draft"

\* C17: the status the update of handleSubmit writes is the status stored
\* for the edited event when the form is submitted, so that submitting the
\* edit form leaves the stored status as it is.
C17_SubmitKeepsStatus ==
    [][\A r \in BagToSet(inflight') :
          (Issues(r) /\ r.caller = "handleSubmit" /\ r.kind = "update") =>
              \A row \in dbEvents : row.id = r.id => r.patch.status = row.status
      ]_vars

====
